---- MODULE Spec2Model ----
(***************************************************************************)
(* Model of the SC H.3492 EITC chart generator: the decile aggregation     *)
(* (dynamic_charts/microsim.py, calculate_decile_impacts), the income      *)
(* sweep of one household (household.py, calculate_net_income_by_earnings) *)
(* and the generation run that writes the three chart pages                *)
(* (generate_dynamic_charts.py, main).                                     *)
(*                                                                         *)
(* Numbers.  The program computes in floating point; the model computes    *)
(* over exact rationals.  Incomes and weights are integers, a percentage   *)
(* change is a fraction [num, den] with den > 0 compared with the literals *)
(* 0.05 and 0.001 by cross-multiplication, and a rounded quotient is       *)
(* computed from its numerator and denominator.  A reported percentage is  *)
(* held in tenths of a percentage point (1000 is 100.0), a reported dollar *)
(* amount in whole dollars.                                                *)
(***************************************************************************)
EXTENDS Integers, Sequences, FiniteSets, TLC

VARIABLES
    pc,         \* position of the run: in calculate_decile_impacts, returned, raised
    dataset,    \* the engine's household arrays, one record per household
    locals,     \* calculate_decile_impacts' local arrays at its return
    result,     \* the dictionary calculate_decile_impacts returns
    stdout,     \* the diagnostic lines printed
    exception,  \* the exception that ended the run, "none" if none
    sweep,      \* calculate_net_income_by_earnings: arguments, locals, return value
    main_locals, \* main's local variables fig1, microsim_data, fig2, fig3
    files,      \* the chart pages under output/charts, by filename
    runs        \* how many times the generation has been started

mainvars == <<sweep, main_locals, files, runs>>
vars == <<pc, dataset, locals, result, stdout, exception, sweep, main_locals, files, runs>>

----------------------------------------------------------------------------
(* Bounds of the explored inputs. *)

MaxHouseholds == 2      \* households in the engine data, general runs
MaxWeight == 1          \* largest sampling weight, general runs
MaxSample == 2          \* households, runs over the percentage-change cases
MaxShareHouseholds == 2 \* households, runs over the share computation
MaxShareWeight == 2     \* largest sampling weight, runs over the shares
MaxPeople == 2          \* largest household size, runs over the shares
MaxBucketWeight == 4    \* largest sampling weight, one household per bucket
MaxAvgHouseholds == 2   \* households, runs over the average impact
MaxAvgWeight == 3       \* largest sampling weight, runs over the average
MaxAvgPeople == 2       \* largest household size, runs over the average
MaxScale == 3           \* largest factor the weights are scaled by
MaxChildren == 1        \* children of the swept household
MaxMinIncome == 2       \* largest min_income of a sweep
MaxIncome == 6          \* largest max_income of a sweep
MaxStep == 3            \* largest step of a sweep

MaxMainHouseholds == 1  \* households in the engine data, generation runs
MaxMainWeight == 1      \* sampling weight of a household, generation runs
MaxRuns == 2            \* how many times the generation is started

DefaultYear == 2026

----------------------------------------------------------------------------
(* Arithmetic helpers. *)

Abs(x) == IF x < 0 THEN -x ELSE x

RECURSIVE SumSeq(_)
\* numpy's array.sum()
SumSeq(s) == IF s = <<>> THEN 0 ELSE Head(s) + SumSeq(Tail(s))

\* Floor of n / d for d > 0.
FloorDiv(n, d) == IF n >= 0 THEN n \div d ELSE -((-n + d - 1) \div d)

\* round() replaced by truncation towards minus infinity.
round_truncating(n, d) == FloorDiv(n, d)

\* round(): the quotient n / d (d > 0) rounded to the nearest integer, a tie
\* to the even neighbour.
round(n, d) ==
    LET q == FloorDiv(n, d)
        r == n - q * d
    IN  IF 2 * r < d THEN q
        ELSE IF 2 * r > d THEN q + 1
        ELSE IF q % 2 = 0 THEN q ELSE q + 1

\* Comparison of fractions with positive denominators.
Gt(p, q) == p.num * q.den > q.num * p.den
Le(p, q) == ~Gt(p, q)
Neg(q) == [num |-> -q.num, den |-> q.den]

\* The literals 0.05 and 0.001.
Pct005 == [num |-> 5, den |-> 100]
Pct0001 == [num |-> 1, den |-> 1000]

----------------------------------------------------------------------------
(* calculate_decile_impacts, array by array. *)

Deciles == 1..10

Keys == {"gain_more_than_5pct", "gain_less_than_5pct", "no_change",
         "loss_less_than_5pct", "loss_more_than_5pct"}

\* The location filter left out.
sc_mask_unfiltered(data) == data

\* The arrays after the South Carolina filter.
sc_mask(data) == SelectSeq(data, LAMBDA h : h.state_code = "SC")

income_change_hh(h) == h.reform_income - h.baseline_income

household_weights_hh(hh) == [i \in DOMAIN hh |-> hh[i].weight]

\* The average weighted by sampling weight times person count.
avg_impact_person_weighted(hh, decile) ==
    LET in_decile_hh == SelectSeq(hh, LAMBDA h : h.decile = decile)
        decile_weight_hh ==
            SumSeq([i \in DOMAIN in_decile_hh |->
                       in_decile_hh[i].weight * in_decile_hh[i].people])
    IN  IF decile_weight_hh > 0
        THEN round(SumSeq([i \in DOMAIN in_decile_hh |->
                       income_change_hh(in_decile_hh[i])
                       * in_decile_hh[i].weight * in_decile_hh[i].people]),
                   decile_weight_hh)
        ELSE 0

\* The weighted sum divided by the number of households of the decile.
avg_impact_per_household(hh, decile) ==
    LET in_decile_hh == SelectSeq(hh, LAMBDA h : h.decile = decile)
        decile_weight_hh == SumSeq(household_weights_hh(in_decile_hh))
    IN  IF decile_weight_hh > 0
        THEN round(SumSeq([i \in DOMAIN in_decile_hh |->
                       income_change_hh(in_decile_hh[i])
                       * in_decile_hh[i].weight]),
                   Len(in_decile_hh))
        ELSE 0

avg_impact(hh, decile) ==
    LET in_decile_hh == SelectSeq(hh, LAMBDA h : h.decile = decile)
        decile_weight_hh == SumSeq(household_weights_hh(in_decile_hh))
    IN  IF decile_weight_hh > 0
        THEN round(SumSeq([i \in DOMAIN in_decile_hh |->
                       income_change_hh(in_decile_hh[i])
                       * in_decile_hh[i].weight]),
                   decile_weight_hh)
        ELSE 0

avg_impact_by_decile(hh) == [decile \in Deciles |-> avg_impact(hh, decile)]

\* The floor set at 0 instead of 1.
capped_baseline_income_floor0(h) ==
    IF h.baseline_income > 0 THEN h.baseline_income ELSE 0

capped_baseline_income(h) ==
    IF h.baseline_income > 1 THEN h.baseline_income ELSE 1

pct_change_hh(h) ==
    [num |-> income_change_hh(h), den |-> capped_baseline_income(h)]

\* The upper threshold closed on the large-gain side.
gain_more_5_hh_inclusive(p) == ~Gt(Pct005, p)

gain_more_5_hh(p) == Gt(p, Pct005)
gain_less_5_hh(p) == Gt(p, Pct0001) /\ Le(p, Pct005)
no_change_hh(p) == Gt(p, Neg(Pct0001)) /\ Le(p, Pct0001)
loss_less_5_hh(p) == Gt(p, Neg(Pct005)) /\ Le(p, Neg(Pct0001))
loss_more_5_hh(p) == Le(p, Neg(Pct005))

\* The outcome mask a key of the result is computed from.
InBucket(key, h) ==
    LET p == pct_change_hh(h)
    IN  CASE key = "gain_more_than_5pct" -> gain_more_5_hh(p)
          [] key = "gain_less_than_5pct" -> gain_less_5_hh(p)
          [] key = "no_change" -> no_change_hh(p)
          [] key = "loss_less_than_5pct" -> loss_less_5_hh(p)
          [] key = "loss_more_than_5pct" -> loss_more_5_hh(p)

\* The person count left out of the weight.
person_weights_households(h) == h.weight

person_weights(h) == h.weight * h.people

\* person_weights[mask]
person_weights_of(hh) == [i \in DOMAIN hh |-> person_weights(hh[i])]

\* The overall fallback copied into the per-decile branch.
EmptyDecileOutcome_as_overall(key) == IF key = "no_change" THEN 1000 ELSE 0

\* What a decile without person weight reports under a key.
EmptyDecileOutcome(key) == 0

decile_outcome(hh, key, decile) ==
    LET in_decile == SelectSeq(hh, LAMBDA h : h.decile = decile)
        decile_people == SumSeq(person_weights_of(in_decile))
        in_both == SelectSeq(in_decile, LAMBDA h : InBucket(key, h))
    IN  IF decile_people > 0
        THEN round(SumSeq(person_weights_of(in_both)) * 100 * 10,
                   decile_people)
        ELSE EmptyDecileOutcome(key)

decile_outcomes(hh) ==
    [key \in Keys |-> [decile \in Deciles |-> decile_outcome(hh, key, decile)]]

\* The overall fallback reporting zero everywhere.
ZeroPopulationOutcomes_all_zero == [key \in Keys |-> 0]

\* What a population without person weight reports overall.
ZeroPopulationOutcomes ==
    [key \in Keys |-> IF key = "no_change" THEN 1000 ELSE 0]

all_outcomes(hh) ==
    LET total_people == SumSeq(person_weights_of(hh))
    IN  IF total_people > 0
        THEN [key \in Keys |->
                 round(SumSeq(person_weights_of(
                           SelectSeq(hh, LAMBDA h : InBucket(key, h))))
                       * 100 * 10,
                       total_people)]
        ELSE ZeroPopulationOutcomes

NoWarning == {}
NoHouseholdsWarning == {"WARNING: No SC households found in microsimulation data!"}

\* The debug block: the warning is printed when no household passed the filter.
debug_info(hh) == IF Len(hh) > 0 THEN NoWarning ELSE NoHouseholdsWarning

NoLocals == [hh |-> <<>>, pct_change_hh |-> <<>>, masks |-> [key \in Keys |-> <<>>]]
NoResult == "none"

----------------------------------------------------------------------------
(* calculate_net_income_by_earnings and the scenario it submits. *)

\* A name that is not bound yet holds no value; a bound name holds one.
None == {}
Some(x) == {x}
Get(S) == CHOOSE x \in S : TRUE

\* State FIPS codes for setting household state.
STATE_FIPS == [s \in {"SC"} |-> 45]

\* A state without a mapping gets code 0.
state_fips_default0(state) ==
    IF state \in DOMAIN STATE_FIPS THEN STATE_FIPS[state] ELSE 0

\* STATE_FIPS.get(state, 45)
state_fips(state) ==
    IF state \in DOMAIN STATE_FIPS THEN STATE_FIPS[state] ELSE 45

\* list(range(start, stop, step)) for step > 0.
py_range(start, stop, step) ==
    LET n == IF stop > start THEN (stop - start + step - 1) \div step ELSE 0
    IN  [i \in 1..n |-> start + (i - 1) * step]

\* The sweep's income values with the upper end left out.
employment_income_values_exclusive(a) ==
    py_range(a.min_income, a.max_income, a.step)

employment_income_values(a) ==
    py_range(a.min_income, a.max_income + 1, a.step)

_build_household_situation_with_axes(a) ==
    LET members == <<"adult">> \o [i \in 1..a.num_children |-> <<"child", i>>]
    IN  [people |-> [i \in 1..(1 + a.num_children) |->
                        [name |-> members[i],
                         age |-> IF i = 1 THEN 35 ELSE 5 + (i - 2)]],
         members |-> members,
         state_fips |-> state_fips(a.state),
         axes |-> [name |-> "employment_income",
                   min |-> a.min_income,
                   max |-> a.max_income,
                   count |-> Len(employment_income_values(a)),
                   period |-> a.year]]

\* The engine's axis: count points spaced linearly from min to max inclusive,
\* each an exact fraction.
axis_points(axis) ==
    [i \in 1..axis.count |->
        IF axis.count = 1
        THEN [num |-> axis.min, den |-> 1]
        ELSE [num |-> axis.min * (axis.count - 1) + (i - 1) * (axis.max - axis.min),
              den |-> axis.count - 1]]

\* Simulation(situation, reform).calculate("household_net_income", year): one
\* net income per axis point, held as the scenario point it was simulated at.
Simulation(situation, reform) ==
    [i \in DOMAIN axis_points(situation.axes) |->
        [reform |-> reform,
         state_fips |-> situation.state_fips,
         employment_income |-> axis_points(situation.axes)[i]]]

\* The tuple calculate_net_income_by_earnings returns.
net_income_by_earnings(a, baseline_net, reform_net) ==
    [employment_income_values |-> employment_income_values(a),
     baseline_net |-> baseline_net,
     reform_net |-> reform_net]

NoSweep == [args |-> None, situation |-> None, baseline_net |-> None,
            reform_net |-> None, returned |-> None]

SweepCalled(a) == [NoSweep EXCEPT !.args = Some(a)]

BuildSituation ==
    /\ pc = "calculate_net_income_by_earnings"
    /\ sweep' = [sweep EXCEPT
                    !.situation =
                        Some(_build_household_situation_with_axes(Get(sweep.args)))]
    /\ pc' = "baseline_sim"
    /\ UNCHANGED <<dataset, locals, result, stdout, exception, main_locals, files, runs>>

BaselineSim ==
    /\ pc = "baseline_sim"
    /\ sweep' = [sweep EXCEPT !.baseline_net =
                        Some(Simulation(Get(sweep.situation), "current_law"))]
    /\ pc' = "reform_sim"
    /\ UNCHANGED <<dataset, locals, result, stdout, exception, main_locals, files, runs>>

ReformSim ==
    /\ pc = "reform_sim"
    /\ sweep' = [sweep EXCEPT !.reform_net =
                        Some(Simulation(Get(sweep.situation), "sc_h3492_reform"))]
    /\ pc' = "return_net_income"
    /\ UNCHANGED <<dataset, locals, result, stdout, exception, main_locals, files, runs>>

ReturnNetIncome ==
    /\ pc = "return_net_income"
    /\ sweep' = [sweep EXCEPT
                    !.returned = Some(net_income_by_earnings(Get(sweep.args),
                                     Get(sweep.baseline_net), Get(sweep.reform_net)))]
    /\ pc' = "net_income_returned"
    /\ UNCHANGED <<dataset, locals, result, stdout, exception, main_locals, files, runs>>

\* One of the two simulations raises: nothing catches it.
SimulationRaises ==
    /\ pc \in {"baseline_sim", "reform_sim"}
    /\ pc' = "raised"
    /\ exception' = "EngineError"
    /\ UNCHANGED <<dataset, locals, result, stdout, sweep, main_locals, files, runs>>

NextSweep ==
    BuildSituation \/ BaselineSim \/ ReformSim \/ ReturnNetIncome \/ SimulationRaises

----------------------------------------------------------------------------
(* main's figures and pages. *)

\* main before any of its locals is bound.
NoMainLocals == [fig1 |-> None, microsim_data |-> None, fig2 |-> None, fig3 |-> None]

Filenames == {"net-income-change.html", "winners-by-decile.html",
              "avg-benefit-by-decile.html"}

\* The pages that exist, by filename, each the sequence of texts written to it.
NoFiles == [f \in {} |-> <<>>]

Titles ==
    [f \in Filenames |->
        CASE f = "net-income-change.html" ->
                 "Net Income Change - SC H.3492 Partially Refundable EITC"
          [] f = "winners-by-decile.html" ->
                 "Winners by Income Decile - SC H.3492 Partially Refundable EITC"
          [] f = "avg-benefit-by-decile.html" ->
                 "Average Benefit by Income Decile - SC H.3492 Partially Refundable EITC"]

\* The progress line generate_chart_html prints after a page is written.
Generated ==
    [f \in Filenames |->
        CASE f = "net-income-change.html" ->
                 "Generated: output/charts/net-income-change.html"
          [] f = "winners-by-decile.html" ->
                 "Generated: output/charts/winners-by-decile.html"
          [] f = "avg-benefit-by-decile.html" ->
                 "Generated: output/charts/avg-benefit-by-decile.html"]

\* HTML_TEMPLATE.format(title=title, figure_json=fig.to_json())
html_content(fig, title) == [title |-> title, figure_json |-> fig]

\* A page opened for appending instead of writing.
open_a(old, html) == old \o <<html>>

\* open(filepath, "w") and f.write(html_content): the text of the page after
\* the write, whatever it held before.
open_w(old, html) == <<html>>

Contents(fs, filename) == IF filename \in DOMAIN fs THEN fs[filename] ELSE <<>>

Written(fs, filename, text) ==
    [f \in DOMAIN fs \cup {filename} |-> IF f = filename THEN text ELSE fs[f]]

\* The call main makes: create_dynamic_net_income_change_chart(num_children=1,
\* max_income=200000, step=100), which sweeps state "SC" from min_income 0.
MainSweepArgs ==
    [state |-> "SC", num_children |-> 1, min_income |-> 0,
     max_income |-> 200000, step |-> 100, year |-> DefaultYear]

\* zip(reform_net, baseline_net)
zip(r, b) ==
    [i \in 1..(IF Len(r) < Len(b) THEN Len(r) ELSE Len(b)) |-> <<r[i], b[i]>>]

\* The figures, each held as the data it draws.
create_dynamic_net_income_change_chart(returned) ==
    [x |-> returned.employment_income_values,
     net_income_changes |-> zip(returned.reform_net, returned.baseline_net)]

create_dynamic_winners_by_decile_chart(microsim_data) ==
    [deciles |-> microsim_data.decile_outcomes,
     all |-> microsim_data.all_outcomes]

create_dynamic_avg_benefit_by_decile_chart(microsim_data) ==
    [x |-> [i \in Deciles |-> i],
     avg_impact |-> microsim_data.avg_impact_by_decile]

\* main's steps with the decile charts drawn before the aggregate is computed.
main_steps_charts_first ==
    <<"mkdir",
      "create_dynamic_net_income_change_chart", "net-income-change.html",
      "create_dynamic_winners_by_decile_chart", "winners-by-decile.html",
      "create_dynamic_avg_benefit_by_decile_chart", "avg-benefit-by-decile.html",
      "calculate_decile_impacts",
      "done">>

\* main's steps in order; a filename stands for the generate_chart_html call
\* that writes it.
main_steps ==
    <<"mkdir",
      "create_dynamic_net_income_change_chart", "net-income-change.html",
      "calculate_decile_impacts",
      "create_dynamic_winners_by_decile_chart", "winners-by-decile.html",
      "create_dynamic_avg_benefit_by_decile_chart", "avg-benefit-by-decile.html",
      "done">>

\* The step main goes on to when a step has completed.
After(step) ==
    main_steps[1 + CHOOSE i \in DOMAIN main_steps : main_steps[i] = step]

\* The figure a generate_chart_html call is given.
FigureOf(filename) ==
    CASE filename = "net-income-change.html" -> main_locals.fig1
      [] filename = "winners-by-decile.html" -> main_locals.fig2
      [] filename = "avg-benefit-by-decile.html" -> main_locals.fig3

----------------------------------------------------------------------------
(* The run. *)

\* calculate_decile_impacts runs to its return statement.
CalculateDecileImpacts ==
    /\ pc = "calculate_decile_impacts"
    /\ LET hh == sc_mask(dataset)
       IN  /\ locals' = [hh |-> hh,
                         pct_change_hh |-> [i \in DOMAIN hh |-> pct_change_hh(hh[i])],
                         masks |-> [key \in Keys |->
                                       [i \in DOMAIN hh |-> InBucket(key, hh[i])]]]
           /\ result' = [decile_outcomes |-> decile_outcomes(hh),
                         all_outcomes |-> all_outcomes(hh),
                         avg_impact_by_decile |-> avg_impact_by_decile(hh)]
           /\ stdout' = stdout \cup debug_info(hh)
    /\ pc' = "returned"
    /\ UNCHANGED <<dataset, exception, mainvars>>

\* A call into the simulation engine raises: nothing in the function catches
\* it, so the function ends without a result.
EngineRaises ==
    /\ pc = "calculate_decile_impacts"
    /\ pc' = "raised"
    /\ exception' = "EngineError"
    /\ UNCHANGED <<dataset, locals, result, stdout, mainvars>>

Next == CalculateDecileImpacts \/ EngineRaises

----------------------------------------------------------------------------
(* main. *)

\* CHARTS_DIR.mkdir(parents=True, exist_ok=True)
MakeDirs ==
    /\ pc = "mkdir"
    /\ pc' = After("mkdir")
    /\ UNCHANGED <<dataset, locals, result, stdout, exception, mainvars>>

\* The output directory cannot be created.
MakeDirsFails ==
    /\ pc = "mkdir"
    /\ pc' = "raised"
    /\ exception' = "IOError"
    /\ UNCHANGED <<dataset, locals, result, stdout, mainvars>>

\* create_dynamic_net_income_change_chart calls calculate_net_income_by_earnings.
CallNetIncomeByEarnings ==
    /\ pc = "create_dynamic_net_income_change_chart"
    /\ sweep' = SweepCalled(MainSweepArgs)
    /\ pc' = "calculate_net_income_by_earnings"
    /\ UNCHANGED <<dataset, locals, result, stdout, exception, main_locals, files, runs>>

\* create_dynamic_net_income_change_chart builds the figure from the returned
\* sweep, and main binds it to fig1.
CreateNetIncomeChangeChart ==
    /\ pc = "net_income_returned"
    /\ main_locals' =
           [main_locals EXCEPT
               !.fig1 = Some(create_dynamic_net_income_change_chart(Get(sweep.returned)))]
    /\ pc' = After("create_dynamic_net_income_change_chart")
    /\ UNCHANGED <<dataset, locals, result, stdout, exception, sweep, files, runs>>

\* generate_chart_html writes a page and prints its progress line.
GenerateChartHTML ==
    /\ pc \in Filenames
    /\ files' = Written(files, pc,
                     open_w(Contents(files, pc),
                            html_content(Get(FigureOf(pc)), Titles[pc])))
    /\ stdout' = stdout \cup {Generated[pc]}
    /\ pc' = After(pc)
    /\ UNCHANGED <<dataset, locals, result, exception, sweep, main_locals, runs>>

\* generate_chart_html fails: open() raises and the path is left as it was, or
\* f.write() raises after open() has truncated the page.
GenerateChartHTMLFails ==
    /\ pc \in Filenames
    /\ \/ UNCHANGED files
       \/ files' = Written(files, pc, <<>>)
    /\ pc' = "raised"
    /\ exception' = "IOError"
    /\ UNCHANGED <<dataset, locals, result, stdout, sweep, main_locals, runs>>

\* calculate_decile_impacts has returned: main binds microsim_data.
BindMicrosimData ==
    /\ pc = "returned"
    /\ main_locals' = [main_locals EXCEPT !.microsim_data = Some(result)]
    /\ pc' = After("calculate_decile_impacts")
    /\ UNCHANGED <<dataset, locals, result, stdout, exception, sweep, files, runs>>

CreateWinnersByDecileChart ==
    /\ pc = "create_dynamic_winners_by_decile_chart"
    /\ main_locals' =
           [main_locals EXCEPT
               !.fig2 = Some(create_dynamic_winners_by_decile_chart(
                                 Get(main_locals.microsim_data)))]
    /\ pc' = After(pc)
    /\ UNCHANGED <<dataset, locals, result, stdout, exception, sweep, files, runs>>

CreateAvgBenefitByDecileChart ==
    /\ pc = "create_dynamic_avg_benefit_by_decile_chart"
    /\ main_locals' =
           [main_locals EXCEPT
               !.fig3 = Some(create_dynamic_avg_benefit_by_decile_chart(
                                 Get(main_locals.microsim_data)))]
    /\ pc' = After(pc)
    /\ UNCHANGED <<dataset, locals, result, stdout, exception, sweep, files, runs>>

\* The script is started again, a new process over the same engine data: only
\* the pages on disk remain of the run before.
RunAgain ==
    /\ pc = "done"
    /\ runs < MaxRuns
    /\ runs' = runs + 1
    /\ pc' = "mkdir"
    /\ locals' = NoLocals
    /\ result' = NoResult
    /\ stdout' = {}
    /\ exception' = "none"
    /\ sweep' = NoSweep
    /\ main_locals' = NoMainLocals
    /\ UNCHANGED <<dataset, files>>

NextMain ==
    \/ MakeDirs \/ MakeDirsFails
    \/ CallNetIncomeByEarnings \/ NextSweep \/ CreateNetIncomeChangeChart
    \/ GenerateChartHTML \/ GenerateChartHTMLFails
    \/ Next \/ BindMicrosimData
    \/ CreateWinnersByDecileChart \/ CreateAvgBenefitByDecileChart
    \/ RunAgain

----------------------------------------------------------------------------
(* Input families. *)

Household(s, d, w, n, b, c) ==
    [state_code |-> s, decile |-> d, weight |-> w, people |-> n,
     baseline_income |-> b, reform_income |-> b + c]

SeqsUpTo(S, n) == UNION {[1..k -> S] : k \in 0..n}

InitWith(Datasets) ==
    /\ pc = "calculate_decile_impacts"
    /\ dataset \in Datasets
    /\ locals = NoLocals
    /\ result = NoResult
    /\ stdout = {}
    /\ exception = "none"
    /\ sweep = NoSweep
    /\ main_locals = NoMainLocals
    /\ files = NoFiles
    /\ runs = 1

\* General runs: households in and out of South Carolina, decile codes in and
\* out of 1..10, weights from -1.
GeneralHouseholds ==
    { Household(s, d, w, 1, 20000, c) :
        s \in {"SC", "NC"}, d \in {0, 1, 10, 11}, w \in -1..MaxWeight,
        c \in {0, 1200} }

Init == InitWith(SeqsUpTo(GeneralHouseholds, MaxHouseholds))
Spec == Init /\ [][Next]_vars

\* Runs over the percentage-change cases: one decile, unit weights.
SampleHouseholds ==
    { Household("SC", 1, 1, 1, b, c) :
        b \in {-100, 0, 1, 20000},
        c \in {-1000, -20, 0, 10, 20, 1000, 1200} }

InitBuckets == InitWith(SeqsUpTo(SampleHouseholds, MaxSample))
SpecBuckets == InitBuckets /\ [][Next]_vars

\* Runs over the share computation: two deciles, three outcomes.
ShareHouseholds ==
    { Household("SC", d, w, n, 20000, c) :
        d \in {1, 2}, w \in 0..MaxShareWeight, n \in 1..MaxPeople,
        c \in {-1200, 0, 1200} }

InitShares == InitWith(SeqsUpTo(ShareHouseholds, MaxShareHouseholds))
SpecShares == InitShares /\ [][Next]_vars

\* One household per outcome bucket, all in decile 1, weights free.
BucketChanges == <<1200, 1000, 20, -20, -1000>>

BucketDatasets ==
    { [i \in 1..5 |-> Household("SC", 1, w[i], 1, 20000, BucketChanges[i])] :
        w \in [1..5 -> 0..MaxBucketWeight] }

InitRounding == InitWith(BucketDatasets)
SpecRounding == InitRounding /\ [][Next]_vars

\* Runs over the average impact: two deciles, changes of 100 and 200 dollars.
AvgHouseholds ==
    { Household("SC", d, w, n, 20000, c) :
        d \in {1, 2}, w \in 0..MaxAvgWeight, n \in 1..MaxAvgPeople,
        c \in {100, 200} }

InitAvg == InitWith(SeqsUpTo(AvgHouseholds, MaxAvgHouseholds))
SpecAvg == InitAvg /\ [][Next]_vars

\* Calls of calculate_net_income_by_earnings: states with and without a FIPS
\* mapping, ranges that the step divides and ranges it does not.
SweepArgs ==
    [state : {"SC", "NC"}, num_children : 0..MaxChildren,
     min_income : 0..MaxMinIncome, max_income : 0..MaxIncome,
     step : 1..MaxStep, year : {DefaultYear}]

InitSweep ==
    /\ pc = "calculate_net_income_by_earnings"
    /\ sweep \in {SweepCalled(a) : a \in SweepArgs}
    /\ dataset = <<>>
    /\ locals = NoLocals
    /\ result = NoResult
    /\ stdout = {}
    /\ exception = "none"
    /\ main_locals = NoMainLocals
    /\ files = NoFiles
    /\ runs = 1

SpecSweep == InitSweep /\ [][NextSweep]_vars

\* Generation runs: a few households, and pages that may exist beforehand.
MainHouseholds ==
    { Household(s, d, MaxMainWeight, 1, 20000, c) :
        s \in {"SC", "NC"}, d \in {1, 2}, c \in {0, 1200} }

StalePage == <<"stale">>

InitMain ==
    /\ pc = "mkdir"
    /\ dataset \in SeqsUpTo(MainHouseholds, MaxMainHouseholds)
    /\ files \in {[f \in S |-> StalePage] : S \in SUBSET Filenames}
    /\ locals = NoLocals
    /\ result = NoResult
    /\ stdout = {}
    /\ exception = "none"
    /\ sweep = NoSweep
    /\ main_locals = NoMainLocals
    /\ runs = 1

SpecMain == InitMain /\ [][NextMain]_vars

----------------------------------------------------------------------------
(* Reference quantities the properties are stated with, computed from the   *)
(* filtered household arrays by index set.                                  *)

RECURSIVE Total(_, _)
Total(f, S) ==
    IF S = {} THEN 0
    ELSE LET i == CHOOSE j \in S : TRUE IN f[i] + Total(f, S \ {i})

Returned == pc = "returned"

Idx == DOMAIN locals.hh
InDecile(d) == {i \in Idx : locals.hh[i].decile = d}
InKey(k) == {i \in Idx : locals.masks[k][i]}
Weight == [i \in Idx |-> locals.hh[i].weight]
PersonWeight == [i \in Idx |-> locals.hh[i].weight * locals.hh[i].people]
Change == [i \in Idx |-> locals.hh[i].reform_income - locals.hh[i].baseline_income]
WeightedChange == [i \in Idx |-> Change[i] * Weight[i]]

\* v is the quotient scale * part / whole rounded to a nearest integer.
Nearest(v, scale, part, whole) == 2 * Abs(v * whole - scale * part) <= whole

Sum5(f) ==
    f["gain_more_than_5pct"] + f["gain_less_than_5pct"] + f["no_change"]
    + f["loss_less_than_5pct"] + f["loss_more_than_5pct"]

DecileRow(d) == [k \in Keys |-> result.decile_outcomes[k][d]]

----------------------------------------------------------------------------
\* C1 (as claimed): for every decile 1..10 and for the overall population the
\* five reported percentages sum to 100.0 within 0.1.
C1_SumWithinOneTenth ==
    Returned =>
        /\ \A d \in Deciles : Abs(Sum5(DecileRow(d)) - 1000) <= 1
        /\ Abs(Sum5(result.all_outcomes) - 1000) <= 1

\* C1 (amended): for every decile with positive total person weight and for
\* the overall population the five reported percentages sum to 100.0 within
\* 0.2; a decile without positive person weight reports percentages that sum
\* to 0.
C1_SumWithinTwoTenths ==
    Returned =>
        /\ \A d \in Deciles :
              IF Total(PersonWeight, InDecile(d)) > 0
              THEN Abs(Sum5(DecileRow(d)) - 1000) <= 2
              ELSE Sum5(DecileRow(d)) = 0
        /\ Abs(Sum5(result.all_outcomes) - 1000) <= 2

\* C1 witness: a decile with positive person weight whose five percentages
\* sum to 99.8.
C1_Witness ==
    /\ Returned
    /\ \E d \in Deciles :
          /\ Total(PersonWeight, InDecile(d)) > 0
          /\ Sum5(DecileRow(d)) = 998

----------------------------------------------------------------------------
\* C2: every household is in exactly one of the five outcome masks, and a
\* percentage change of exactly 0.05 is a small gain, 0.001 no change,
\* -0.001 a small loss and -0.05 a large loss.
C2_StrictPartition ==
    Returned =>
        \A i \in Idx :
            LET p == locals.pct_change_hh[i]
                In(k) == locals.masks[k][i]
            IN  /\ Cardinality({k \in Keys : In(k)}) = 1
                /\ 20 * p.num = p.den => In("gain_less_than_5pct")
                /\ 1000 * p.num = p.den => In("no_change")
                /\ 1000 * p.num = -p.den => In("loss_less_than_5pct")
                /\ 20 * p.num = -p.den => In("loss_more_than_5pct")

\* C2 witness: a run over a household exactly at 0.05 and one exactly at
\* -0.001.
C2_Witness ==
    /\ Returned
    /\ \E i \in Idx : 20 * locals.pct_change_hh[i].num = locals.pct_change_hh[i].den
    /\ \E i \in Idx :
          1000 * locals.pct_change_hh[i].num = -locals.pct_change_hh[i].den

----------------------------------------------------------------------------
\* C3: for every decile with positive total person weight, and for the
\* overall population, each reported share is 100 times the person weight
\* (sampling weight times person count) of the households of the bucket over
\* the person weight of all households, rounded to one decimal; the overall
\* share is the rounding of the exact overall quotient.
C3_PersonWeightedShares ==
    Returned =>
        \A k \in Keys :
            /\ \A d \in Deciles :
                  Total(PersonWeight, InDecile(d)) > 0 =>
                      Nearest(result.decile_outcomes[k][d], 1000,
                              Total(PersonWeight, InDecile(d) \cap InKey(k)),
                              Total(PersonWeight, InDecile(d)))
            /\ Total(PersonWeight, Idx) > 0 =>
                  Nearest(result.all_outcomes[k], 1000,
                          Total(PersonWeight, InKey(k)),
                          Total(PersonWeight, Idx))

\* C3 witness: two weighted households of one decile in different buckets,
\* one of them with more than one person.
C3_Witness ==
    /\ Returned
    /\ \E i, j \in Idx :
          /\ locals.hh[i].decile = locals.hh[j].decile
          /\ locals.hh[i].weight > 0 /\ locals.hh[j].weight > 0
          /\ locals.hh[i].people > 1
          /\ \E k \in Keys : locals.masks[k][i] /\ ~locals.masks[k][j]

----------------------------------------------------------------------------
\* C4: a decile's reported average impact is the sum of income change times
\* sampling weight over the sum of sampling weights, rounded to a whole
\* dollar, and 0 when the sampling weights sum to zero; person counts do not
\* enter (weights 2 and 3 with changes 100 and 200 give 160).
C4_HouseholdWeightedAverage ==
    Returned =>
        \A d \in Deciles :
            LET W == Total(Weight, InDecile(d))
                avg == result.avg_impact_by_decile[d]
            IN  /\ W > 0 => Nearest(avg, 1, Total(WeightedChange, InDecile(d)), W)
                /\ W = 0 => avg = 0
                /\ ( /\ Cardinality(InDecile(d)) = 2
                     /\ \E i, j \in InDecile(d) :
                           /\ Weight[i] = 2 /\ Change[i] = 100
                           /\ Weight[j] = 3 /\ Change[j] = 200 )
                   => avg = 160

\* C4 witness: the decile of the example, with person counts 1 and 2.
C4_Witness ==
    /\ Returned
    /\ \E d \in Deciles :
          /\ Cardinality(InDecile(d)) = 2
          /\ \E i, j \in InDecile(d) :
                /\ Weight[i] = 2 /\ Change[i] = 100 /\ locals.hh[i].people = 1
                /\ Weight[j] = 3 /\ Change[j] = 200 /\ locals.hh[j].people = 2

----------------------------------------------------------------------------
\* C5: a decile whose total person weight is zero reports exactly 0 for all
\* five buckets.
C5_EmptyDecileReportsZero ==
    Returned =>
        \A d \in Deciles :
            Total(PersonWeight, InDecile(d)) = 0 =>
                \A k \in Keys : result.decile_outcomes[k][d] = 0

\* C5 witness: a decile that holds households, all of weight zero, beside a
\* decile with positive weight.
C5_Witness ==
    /\ Returned
    /\ \E d, e \in Deciles :
          /\ InDecile(d) # {}
          /\ Total(PersonWeight, InDecile(d)) = 0
          /\ Total(PersonWeight, InDecile(e)) > 0

----------------------------------------------------------------------------
\* C6: when the filtered population has zero total person weight the overall
\* output reports no_change = 100 and 0 for the other four buckets, and the
\* function returns.
C6_ZeroPopulationFallback ==
    (pc # "calculate_decile_impacts" /\ exception = "none"
        /\ Total([i \in DOMAIN sc_mask(dataset) |->
                     sc_mask(dataset)[i].weight * sc_mask(dataset)[i].people],
                 DOMAIN sc_mask(dataset)) = 0)
    => /\ Returned
       /\ result.all_outcomes["no_change"] = 1000
       /\ \A k \in Keys \ {"no_change"} : result.all_outcomes[k] = 0

\* C6 witness: the function has returned for households that all have weight
\* zero.
C6_Witness ==
    /\ Returned
    /\ Idx # {}
    /\ Total(PersonWeight, Idx) = 0

----------------------------------------------------------------------------
\* C7: scaling the sampling weights of all households of a decile by the
\* same positive factor leaves the decile's reported average impact unchanged.
ScaleDecile(hh, d, c) ==
    [i \in DOMAIN hh |->
        IF hh[i].decile = d THEN [hh[i] EXCEPT !.weight = c * @] ELSE hh[i]]

C7_AverageScaleInvariant ==
    Returned =>
        \A d \in Deciles : \A c \in 1..MaxScale :
            avg_impact(ScaleDecile(locals.hh, d, c), d)
                = result.avg_impact_by_decile[d]

\* C7 witness: a decile with two weighted households of different income
\* change and a non-zero average.
C7_Witness ==
    /\ Returned
    /\ \E d \in Deciles :
          /\ result.avg_impact_by_decile[d] # 0
          /\ \E i, j \in InDecile(d) :
                Weight[i] > 0 /\ Weight[j] > 0 /\ Change[i] # Change[j]

----------------------------------------------------------------------------
\* C8: pct_change is the income change over max(baseline, 1), so a baseline
\* at or below 1 divides by exactly 1; baseline 20000 with reform 21200 gives
\* 0.06, a large gain, and with reform 20010 gives 0.0005, no change.
C8_ClampedPercentageChange ==
    Returned =>
        \A i \in Idx :
            LET h == locals.hh[i]
                p == locals.pct_change_hh[i]
            IN  /\ p.num = h.reform_income - h.baseline_income
                /\ h.baseline_income <= 1 => p.den = 1
                /\ h.baseline_income > 1 => p.den = h.baseline_income
                /\ (h.baseline_income = 20000 /\ h.reform_income = 21200) =>
                       /\ 100 * p.num = 6 * p.den
                       /\ locals.masks["gain_more_than_5pct"][i]
                /\ (h.baseline_income = 20000 /\ h.reform_income = 20010) =>
                       /\ 10000 * p.num = 5 * p.den
                       /\ locals.masks["no_change"][i]

\* C8 witness: a run over a household of negative baseline income and the
\* household of the 0.06 example.
C8_Witness ==
    /\ Returned
    /\ \E i \in Idx : locals.hh[i].baseline_income < 0
    /\ \E i \in Idx :
          locals.hh[i].baseline_income = 20000 /\ locals.hh[i].reform_income = 21200

----------------------------------------------------------------------------
\* C9: once the engine has delivered its arrays, the aggregation ends with a
\* ValidationError, and without a result, whenever a household of the
\* filtered population has a decile outside 1..10 or a negative sampling
\* weight.
C9_ValidationError ==
    (pc # "calculate_decile_impacts" /\ exception # "EngineError"
        /\ \E i \in DOMAIN sc_mask(dataset) :
              \/ sc_mask(dataset)[i].decile \notin Deciles
              \/ sc_mask(dataset)[i].weight < 0)
    => (pc = "raised" /\ exception = "ValidationError" /\ result = NoResult)

----------------------------------------------------------------------------
\* C10 (as claimed): when no household of the engine data is in South
\* Carolina the run ends with an EngineError and returns no result.
C10_EmptyPopulationFails ==
    (pc # "calculate_decile_impacts"
        /\ \A i \in DOMAIN dataset : dataset[i].state_code # "SC")
    => (pc = "raised" /\ exception = "EngineError" /\ result = NoResult)

\* C10 (amended): when no household of the engine data is in South Carolina
\* and no engine call raises, calculate_decile_impacts prints a warning and
\* returns a result: 0 for every decile's shares and average impact, and
\* overall no_change = 100 with 0 for the other four buckets.
C10_EmptyPopulationReturns ==
    (pc # "calculate_decile_impacts" /\ exception = "none"
        /\ \A i \in DOMAIN dataset : dataset[i].state_code # "SC")
    => /\ Returned
       /\ stdout = NoHouseholdsWarning
       /\ \A d \in Deciles :
             /\ result.avg_impact_by_decile[d] = 0
             /\ \A k \in Keys : result.decile_outcomes[k][d] = 0
       /\ result.all_outcomes =
              [k \in Keys |-> IF k = "no_change" THEN 1000 ELSE 0]

\* C10 witness: the function has returned for engine data whose households
\* are all outside South Carolina.
C10_Witness ==
    /\ Returned
    /\ dataset # <<>>
    /\ \A i \in DOMAIN dataset :
          dataset[i].state_code # "SC" /\ dataset[i].weight > 0

----------------------------------------------------------------------------
NetIncomeReturned == pc = "net_income_returned"

\* C11: the income values calculate_net_income_by_earnings returns are
\* min_income, min_income + step, ... up to max_income, and for a range with
\* min_income <= max_income they include both ends whenever step divides
\* max_income - min_income.
C11_IncomeValuesCoverRange ==
    NetIncomeReturned =>
        LET a == Get(sweep.args)
            v == Get(sweep.returned).employment_income_values
        IN  /\ \A i \in DOMAIN v :
                  v[i] = a.min_income + (i - 1) * a.step /\ v[i] <= a.max_income
            /\ a.min_income + Len(v) * a.step > a.max_income
            /\ a.min_income <= a.max_income => v[1] = a.min_income
            /\ (a.min_income <= a.max_income
                  /\ (a.max_income - a.min_income) % a.step = 0)
               => v[Len(v)] = a.max_income

\* C11 witness: a returned sweep from a positive min_income with a step above
\* 1 that divides the range into at least two intervals.
C11_Witness ==
    /\ NetIncomeReturned
    /\ Get(sweep.args).min_income > 0
    /\ Get(sweep.args).step > 1
    /\ (Get(sweep.args).max_income - Get(sweep.args).min_income)
          % Get(sweep.args).step = 0
    /\ Len(Get(sweep.returned).employment_income_values) >= 3

----------------------------------------------------------------------------
\* C12: the baseline and reform net-income sequences have the length of the
\* returned income values, and the i-th net income of each was simulated at
\* exactly the i-th returned income value.
C12_AlignedIndexForIndex ==
    NetIncomeReturned =>
        LET v == Get(sweep.returned).employment_income_values
            b == Get(sweep.returned).baseline_net
            r == Get(sweep.returned).reform_net
        IN  /\ Len(b) = Len(v) /\ Len(r) = Len(v)
            /\ \A i \in DOMAIN v :
                  /\ b[i].employment_income.num = v[i] * b[i].employment_income.den
                  /\ r[i].employment_income.num = v[i] * r[i].employment_income.den

----------------------------------------------------------------------------
\* C13 (as claimed): a call with a state code that has no location mapping
\* ends with an EngineError and returns no net-income result.
C13_UnsupportedStateFails ==
    Get(sweep.args).state \notin DOMAIN STATE_FIPS
    => /\ ~NetIncomeReturned
       /\ pc = "raised" => exception = "EngineError"

\* C13 (amended): a call with a state code that has no location mapping does
\* not fail on that account: the household is placed in South Carolina (FIPS
\* 45), and the call returns what the same call with state "SC" returns.
C13_UnsupportedStateDefaultsToSC ==
    (NetIncomeReturned /\ Get(sweep.args).state \notin DOMAIN STATE_FIPS)
    => LET sc == _build_household_situation_with_axes(
                     [Get(sweep.args) EXCEPT !.state = "SC"])
       IN  /\ exception = "none"
           /\ Get(sweep.situation).state_fips = 45
           /\ Get(sweep.situation) = sc
           /\ Get(sweep.returned) =
                  net_income_by_earnings(Get(sweep.args),
                      Simulation(sc, "current_law"),
                      Simulation(sc, "sc_h3492_reform"))

\* C13 witness: a call for state "NC" has returned a sweep of several points.
C13_Witness ==
    /\ NetIncomeReturned
    /\ Get(sweep.args).state = "NC"
    /\ Len(Get(sweep.returned).baseline_net) >= 2

----------------------------------------------------------------------------
\* The filtered households whose decile code is one of 1..10.
InRange == SelectSeq(locals.hh, LAMBDA h : h.decile \in Deciles)

\* Households with a decile code outside 1..10 are in none of the ten
\* per-decile entries and are counted in the overall shares.
OutOfRangeExcluded ==
    /\ result.decile_outcomes = decile_outcomes(InRange)
    /\ result.avg_impact_by_decile = avg_impact_by_decile(InRange)
    /\ \A k \in Keys :
          Total(PersonWeight, Idx) > 0 =>
              Nearest(result.all_outcomes[k], 1000,
                      Total(PersonWeight, InKey(k)), Total(PersonWeight, Idx))

\* C17: a household whose decile is outside 1..10 contributes to none of the
\* ten per-decile entries, is still counted in the overall shares, and makes
\* the run print a warning.
C17_OutOfRangeExcludedAndWarned ==
    (Returned /\ \E i \in Idx : locals.hh[i].decile \notin Deciles)
    => /\ OutOfRangeExcluded
       /\ stdout # NoWarning

----------------------------------------------------------------------------
(* The generation run. *)

\* The pages this run has written in full: generate_chart_html prints a page's
\* progress line only after the write has completed.
WrittenThisRun == {f \in Filenames : Generated[f] \in stdout}

MainEnded == pc \in {"done", "raised"}

\* A failed step ends the run: nothing is retried and no later step executes;
\* a run that ends without failure has written all three pages.
FailureAborts ==
    /\ pc = "raised" => ~ENABLED NextMain /\ exception # "none"
    /\ pc = "done" => WrittenThisRun = Filenames /\ exception = "none"

\* C14: a generation run ends with all three pages written or with none of
\* them written, and a failed step is never retried nor followed by a later
\* step.
C14_AllOrNothing ==
    MainEnded =>
        /\ WrittenThisRun = Filenames \/ WrittenThisRun = {}
        /\ FailureAborts

\* What the engine's results determine: the sweep main asks for, the aggregate
\* over the South Carolina households, and the figure and the text of each page.
ExpectedSweep ==
    LET situation == _build_household_situation_with_axes(MainSweepArgs)
    IN  net_income_by_earnings(MainSweepArgs,
                               Simulation(situation, "current_law"),
                               Simulation(situation, "sc_h3492_reform"))

ExpectedMicrosim ==
    LET hh == sc_mask(dataset)
    IN  [decile_outcomes |-> decile_outcomes(hh),
         all_outcomes |-> all_outcomes(hh),
         avg_impact_by_decile |-> avg_impact_by_decile(hh)]

ExpectedFigure(filename) ==
    CASE filename = "net-income-change.html" ->
             create_dynamic_net_income_change_chart(ExpectedSweep)
      [] filename = "winners-by-decile.html" ->
             create_dynamic_winners_by_decile_chart(ExpectedMicrosim)
      [] filename = "avg-benefit-by-decile.html" ->
             create_dynamic_avg_benefit_by_decile_chart(ExpectedMicrosim)

ExpectedPage(filename) == html_content(ExpectedFigure(filename), Titles[filename])

\* C15: when a generation run has finished, first or repeated, the three fixed
\* filenames and no others exist, and each page holds exactly the one text the
\* engine's results determine, whatever was at the path before the run.
C15_OverwriteIdempotent ==
    pc = "done" =>
        /\ DOMAIN files = Filenames
        /\ \A f \in Filenames :
              /\ Len(files[f]) = 1
              /\ files[f][1] = ExpectedPage(f)

\* A second run has finished over the pages the first run left.
C15_Witness ==
    /\ pc = "done"
    /\ runs = 2
    /\ \A f \in Filenames : files[f] = <<ExpectedPage(f)>>

DecileCharts == {"winners-by-decile.html", "avg-benefit-by-decile.html"}

\* A decile chart is being built, has been built, or is being or has been written.
DecileChartStarted ==
    \/ pc \in {"create_dynamic_winners_by_decile_chart",
               "create_dynamic_avg_benefit_by_decile_chart"} \cup DecileCharts
    \/ main_locals.fig2 # None
    \/ main_locals.fig3 # None
    \/ WrittenThisRun \cap DecileCharts # {}

\* C16: the net-income-change figure exists only once both simulations of the
\* sweep have returned, and a decile chart is built or written only once
\* calculate_decile_impacts has returned the aggregate of all South Carolina
\* households.
C16_OrderedByDataDependency ==
    /\ (pc = "net-income-change.html" \/ main_locals.fig1 # None) =>
           /\ sweep.baseline_net # None
           /\ sweep.reform_net # None
           /\ sweep.returned = Some(ExpectedSweep)
    /\ DecileChartStarted =>
           /\ main_locals.microsim_data # None
           /\ main_locals.microsim_data = Some(ExpectedMicrosim)
           /\ locals.hh = sc_mask(dataset)

\* All three charts have been built and written in one run.
C16_Witness ==
    /\ pc = "done"
    /\ main_locals.fig1 # None
    /\ main_locals.fig2 # None
    /\ main_locals.fig3 # None
    /\ WrittenThisRun = Filenames

====
